---- MODULE Spec2Model ----
(***************************************************************************)
(* HealthOdyssey: the recall ingestion and scoring pipeline.               *)
(*                                                                         *)
(*   getNews.py   scrape_viandes: paginated ingestion with zone enrichment *)
(*   app.py       fetch_recalls (one page, zone enrichment),               *)
(*                get_recall_ratings, main (aggregate index)               *)
(*   newsDemo.py  fetch_recalls (one page, no zone), get_recall_ratings,   *)
(*                main                                                     *)
(*                                                                         *)
(* Text is modelled by TLA+ strings; a datetime by a record of its fields. *)
(***************************************************************************)
EXTENDS Integers, Sequences, FiniteSets, TLC

VARIABLES
    prog,       \* which entry point runs: "getNews", "app", "newsDemo", or a function harness
    pc,         \* position of the single thread of control
    TODAY,      \* app.py / newsDemo.py module constant, fixed when the module is loaded
    page,       \* scrape_viandes: loop variable of `for page in range(...)`
    products,   \* the product-item nodes of the page being processed
    li,         \* index of the next node of `products` to process
    all_items,  \* all_items (getNews) / recalls (app, newsDemo)
    ret,        \* what the ingestion call gave its caller
    net,        \* history: network requests and sleeps, in the order issued
    seen,       \* history: per listing fetch, <<page, status, nodes, len(all_items) before>>
    data,       \* get_recall_ratings: the rows of the DataFrame being built
    reports,    \* history: the values passed to progress_bar.progress
    avg_index,  \* main: the aggregate index, the fraction num / den
    ui,         \* history: st.error / st.warning / st.info messages shown
    saved,      \* getNews.main: the rows written to the CSV file, None while unwritten
    arg,        \* function harness: the input drawn
    out         \* function harness: the result computed

vars == <<prog, pc, TODAY, page, products, li, all_items, ret, net, seen,
          data, reports, avg_index, ui, saved, arg, out>>

envVars == <<prog, TODAY>>
scrapeVars == <<page, products, li, all_items, ret, net, seen>>
scoreVars == <<data, reports, avg_index>>
harnessVars == <<arg, out>>

None == "None"

(***************************************************************************)
(* Strings                                                                 *)
(***************************************************************************)
startswith(s, p) == Len(s) >= Len(p) /\ SubSeq(s, 1, Len(p)) = p

CharAt(s, i) == SubSeq(s, i, i)

DigitChars == {"0", "1", "2", "3", "4", "5", "6", "7", "8", "9"}

DigitVal(c) ==
    CASE c = "0" -> 0 [] c = "1" -> 1 [] c = "2" -> 2 [] c = "3" -> 3
      [] c = "4" -> 4 [] c = "5" -> 5 [] c = "6" -> 6 [] c = "7" -> 7
      [] c = "8" -> 8 [] c = "9" -> 9

IsDigitAt(s, i) == i >= 1 /\ i <= Len(s) /\ CharAt(s, i) \in DigitChars

\* sub in s, from position i on
RECURSIVE ContainsFrom(_, _, _)
ContainsFrom(s, sub, i) ==
    IF i + Len(sub) - 1 > Len(s) THEN FALSE
    ELSE IF SubSeq(s, i, i + Len(sub) - 1) = sub THEN TRUE
    ELSE ContainsFrom(s, sub, i + 1)

Contains(s, sub) == ContainsFrom(s, sub, 1)

\* s.replace(old, ""), old not empty
RECURSIVE Remove(_, _)
Remove(s, old) ==
    IF Len(s) < Len(old) THEN s
    ELSE IF SubSeq(s, 1, Len(old)) = old THEN Remove(SubSeq(s, Len(old) + 1, Len(s)), old)
    ELSE CharAt(s, 1) \o Remove(SubSeq(s, 2, Len(s)), old)

\* get_text(strip=True) of a node holding one text
RECURSIVE LStrip(_)
LStrip(s) == IF Len(s) > 0 /\ CharAt(s, 1) = " " THEN LStrip(SubSeq(s, 2, Len(s))) ELSE s

RECURSIVE RStrip(_)
RStrip(s) ==
    IF Len(s) > 0 /\ CharAt(s, Len(s)) = " " THEN RStrip(SubSeq(s, 1, Len(s) - 1)) ELSE s

Strip(s) == RStrip(LStrip(s))

(***************************************************************************)
(* datetime                                                                *)
(***************************************************************************)
datetime(Y, m, d, H, M, S, us) ==
    [Y |-> Y, m |-> m, d |-> d, H |-> H, M |-> M, S |-> S, us |-> us]

IsLeap(y) == y % 4 = 0 /\ (y % 100 # 0 \/ y % 400 = 0)

DaysInMonth(y, m) ==
    IF m = 2 THEN (IF IsLeap(y) THEN 29 ELSE 28)
    ELSE IF m \in {4, 6, 9, 11} THEN 30 ELSE 31

\* datetime.__le__: the fields compared in order, most significant first.
DtTuple(a) == <<a.Y, a.m, a.d, a.H, a.M, a.S, a.us>>

RECURSIVE TupleLe(_, _, _)
TupleLe(a, b, i) ==
    IF i > Len(a) THEN TRUE
    ELSE IF a[i] < b[i] THEN TRUE
    ELSE IF a[i] > b[i] THEN FALSE
    ELSE TupleLe(a, b, i + 1)

DtLe(a, b) == TupleLe(DtTuple(a), DtTuple(b), 1)

\* date - timedelta(days=1)
PrevDay(a) ==
    IF a.d > 1 THEN [a EXCEPT !.d = a.d - 1]
    ELSE IF a.m > 1 THEN [a EXCEPT !.m = a.m - 1, !.d = DaysInMonth(a.Y, a.m - 1)]
    ELSE [a EXCEPT !.Y = a.Y - 1, !.m = 12, !.d = 31]

RECURSIVE MinusDays(_, _)
MinusDays(a, n) == IF n = 0 THEN a ELSE MinusDays(PrevDay(a), n - 1)

(***************************************************************************)
(* datetime.strptime(date_text, "%d/%m/%Y %H:%M:%S")                       *)
(*                                                                         *)
(* The format compiles to a regular expression that must match the whole   *)
(* text: %d, %m, %H, %M, %S take one or two digits within the directive's   *)
(* range, %Y exactly four digits, a blank in the format one or more blanks. *)
(* The fields then go to the datetime constructor, which rejects a day the  *)
(* month does not have and a second above 59.  Every failure is ValueError. *)
(***************************************************************************)
ValueError == "ValueError"

\* Number of digits (at most `most`) starting at position i.
RECURSIVE DigitRun(_, _, _)
DigitRun(s, i, most) ==
    IF most = 0 \/ ~IsDigitAt(s, i) THEN 0 ELSE 1 + DigitRun(s, i + 1, most - 1)

RECURSIVE BlankRun(_, _)
BlankRun(s, i) ==
    IF i <= Len(s) /\ CharAt(s, i) = " " THEN 1 + BlankRun(s, i + 1) ELSE 0

RECURSIVE ToInt(_, _, _)
ToInt(s, i, n) ==
    IF n = 0 THEN 0 ELSE ToInt(s, i, n - 1) * 10 + DigitVal(CharAt(s, i + n - 1))

\* One numeric directive at position i: its value and the position after it;
\* position 0 when the directive does not match there.
NoMatch == [v |-> 0, next |-> 0]

Directive(s, i, least, most, lo, hi) ==
    LET n == DigitRun(s, i, most)
        v == ToInt(s, i, n)
    IN  IF i = 0 \/ n < least \/ v < lo \/ v > hi THEN NoMatch
        ELSE [v |-> v, next |-> i + n]

\* %d also takes a blank followed by one digit 1-9.
DirectiveDay(s, i) ==
    IF i <= Len(s) /\ CharAt(s, i) = " "
    THEN (IF IsDigitAt(s, i + 1) /\ CharAt(s, i + 1) # "0"
          THEN [v |-> DigitVal(CharAt(s, i + 1)), next |-> i + 2]
          ELSE NoMatch)
    ELSE Directive(s, i, 1, 2, 1, 31)

\* One literal character of the format at position i: the position after it, or 0.
Literal(s, i, c) ==
    IF i >= 1 /\ i <= Len(s) /\ CharAt(s, i) = c THEN i + 1 ELSE 0

\* A blank of the format: one or more blanks of the text.
Blanks(s, i) ==
    IF i = 0 \/ BlankRun(s, i) = 0 THEN 0 ELSE i + BlankRun(s, i)

\* The outcome of a call: the exception raised, or the value returned, which
\* is None (isNone) or a datetime.
NoDatetime == datetime(0, 0, 0, 0, 0, 0, 0)
Raised(e) == [exc |-> e, isNone |-> FALSE, value |-> NoDatetime]
Returned(v) == [exc |-> None, isNone |-> FALSE, value |-> v]
ReturnedNone == [exc |-> None, isNone |-> TRUE, value |-> NoDatetime]

strptime(s) ==
    LET d == DirectiveDay(s, 1)
        m == Directive(s, Literal(s, d.next, "/"), 1, 2, 1, 12)
        Y == Directive(s, Literal(s, m.next, "/"), 4, 4, 0, 9999)
        H == Directive(s, Blanks(s, Y.next), 1, 2, 0, 23)
        M == Directive(s, Literal(s, H.next, ":"), 1, 2, 0, 59)
        S == Directive(s, Literal(s, M.next, ":"), 1, 2, 0, 61)
    IN  IF S.next = 0 THEN Raised(ValueError)               \* the text does not match
        ELSE IF S.next # Len(s) + 1 THEN Raised(ValueError) \* unconverted data remains
        ELSE IF Y.v < 1 THEN Raised(ValueError)             \* year 0 is out of range
        ELSE IF d.v > DaysInMonth(Y.v, m.v) THEN Raised(ValueError)
        ELSE IF S.v > 59 THEN Raised(ValueError)
        ELSE Returned(datetime(Y.v, m.v, d.v, H.v, M.v, S.v, 0))

(***************************************************************************)
(* The date filter                                                         *)
(***************************************************************************)
\* getNews.py: the window is fixed in the function.
start_date_filter == datetime(2021, 1, 1, 0, 0, 0, 0)
end_date_filter == datetime(2023, 12, 31, 23, 59, 59, 0)

\* app.py, newsDemo.py: the window is the seven days before the load of the module.
START_DATE(today) == MinusDays(today, 7)

\* getNews.py: record_date, None when date_text is empty or strptime raised
\* (`except Exception` takes every exception).
RecordDateGetNews(date_text) ==
    IF date_text = "" THEN ReturnedNone
    ELSE LET r == strptime(date_text)
         IN  IF r.exc # None THEN ReturnedNone ELSE r

\* app.py, newsDemo.py: `except ValueError` takes ValueError alone.
RecordDateApp(date_text) ==
    IF date_text = "" THEN ReturnedNone
    ELSE LET r == strptime(date_text)
         IN  IF r.exc = ValueError THEN ReturnedNone ELSE r

\* A window open at its start, for comparison with InWindow.
InWindowLowerExclusive(rd, lo, hi) == ~DtLe(rd, lo) /\ DtLe(rd, hi)

\* start <= record_date <= end, both ends included.
InWindow(rd, lo, hi) == DtLe(lo, rd) /\ DtLe(rd, hi)

\* A filter that drops nothing, for comparison with FilterGetNews.
KeepsEveryDate(date_text) == "keep"

\* The window test of the `continue`: "keep", "skip", or "raise" when the
\* parse let an exception through.
FilterGetNews(date_text) ==
    LET r == RecordDateGetNews(date_text)
    IN  IF r.exc # None THEN "raise"
        ELSE IF r.isNone THEN "skip"
        ELSE IF ~InWindow(r.value, start_date_filter, end_date_filter) THEN "skip"
        ELSE "keep"

FilterApp(date_text, today) ==
    LET r == RecordDateApp(date_text)
    IN  IF r.exc # None THEN "raise"
        ELSE IF r.isNone THEN "skip"
        ELSE IF ~InWindow(r.value, START_DATE(today), today) THEN "skip"
        ELSE "keep"

(***************************************************************************)
(* The site: listing pages and detail pages                                *)
(***************************************************************************)
MaxPage == 2        \* stands for END_PAGE (209): the last page of the range
MaxProducts == 2    \* most product-item nodes on one listing page
MaxNodes == 3       \* most product-item nodes the site serves in one run

\* In the texts of the site and of the source files, {xx} stands for the one
\* character U+00xx ({e9} e-acute, {a0} the no-break space).

\* A <li class="product-item">: what find / has_attr / get_text see of it.
\*   a, a_text, has_href, href      the <a class="product-link">
\*   has_maker, maker               the <p class="product-maker">
\*   has_desc, desc                 the <div class="product-desc"> and its items
\*   has_time, time                 the <time datetime=...> in the product-date <p>
ProductItem(a, a_text, has_href, href, has_time, time) ==
    [a |-> a, a_text |-> a_text, has_href |-> has_href, href |-> href,
     has_maker |-> a, maker |-> " Marque ",
     has_desc |-> a, desc |-> <<"Risques{a0}:{a0}Listeria", "Motif{a0}:{a0}Analyse">>,
     has_time |-> has_time, time |-> time]

\* The nodes a page of the site is made of; `recent` is a date inside the
\* window of the program that runs, `old` one before it.
NodesWith(recent, old) ==
    { ProductItem(TRUE, " Steak hache ", TRUE, "/rappels/fiche-rappel/1", TRUE, recent),
      ProductItem(FALSE, "", FALSE, "", TRUE, recent),
      ProductItem(TRUE, "Saucisse", TRUE, "https://rappel.conso.gouv.fr/fiche/4", TRUE, old),
      ProductItem(TRUE, "Pate", FALSE, "", TRUE, "hier"),
      ProductItem(TRUE, "Roti", TRUE, "", FALSE, "") }

SeqsUpTo(S, n) == UNION { [1..k -> S] : k \in 0..n }

\* requests.get on a listing URL: it raises, or answers with a status and a body.
ListingResponse(raises, status, nodes) ==
    [raises |-> raises, status_code |-> status, nodes |-> nodes]

RECURSIVE NodesServed(_)
NodesServed(h) == IF h = <<>> THEN 0 ELSE Len(h[1].nodes) + NodesServed(Tail(h))

ListingResponses(nodeSet, served) ==
    { ListingResponse(TRUE, 0, <<>>), ListingResponse(FALSE, 404, <<>>) }
    \cup { ListingResponse(FALSE, 200, b) :
             b \in SeqsUpTo(nodeSet, IF MaxNodes - served < MaxProducts
                                     THEN MaxNodes - served ELSE MaxProducts) }

\* A detail page: <li class="product-desc-item"> nodes, each with an optional
\* <span class="carac"> (the label) and an optional <span class="val">.
DescItem(has_carac, carac, has_val, val) ==
    [has_carac |-> has_carac, carac |-> carac, has_val |-> has_val, val |-> val]

\* The label as the site writes it.
SiteZoneLabel == "Zone g{e9}ographique de vente"

DetailResponse(raises, status, bad_markup, items) ==
    [raises |-> raises, status_code |-> status, bad_markup |-> bad_markup, items |-> items]

IsAbsoluteURL(u) == startswith(u, "http://") \/ startswith(u, "https://")

\* requests.get raises MissingSchema on a URL with no scheme.
DetailResponses(url) ==
    IF ~IsAbsoluteURL(url) THEN { DetailResponse(TRUE, 0, FALSE, <<>>) }
    ELSE { DetailResponse(TRUE, 0, FALSE, <<>>),
           DetailResponse(FALSE, 404, FALSE, <<>>),
           DetailResponse(FALSE, 200, TRUE, <<>>),
           DetailResponse(FALSE, 200, FALSE,
               << DescItem(TRUE, "Conditionnement", TRUE, "Barquette") >>),
           DetailResponse(FALSE, 200, FALSE,
               << DescItem(FALSE, "", TRUE, "x"),
                  DescItem(TRUE, SiteZoneLabel, FALSE, ""),
                  DescItem(TRUE, " " \o SiteZoneLabel, TRUE, " France enti{e8}re ") >>) }

(***************************************************************************)
(* get_zone_geographique                                                   *)
(***************************************************************************)
\* The label each file looks for: getNews.py holds the site's label, app.py
\* holds its bytes read as Latin-1 and written back as UTF-8.
ZoneLabelGetNews == "Zone g{e9}ographique de vente"
ZoneLabelApp == "Zone g{c3}{a9}ographique de vente"

Ok(v) == [exc |-> None, value |-> v]
Exc(e) == [exc |-> e, value |-> ""]

RECURSIVE ScanZone(_, _, _)
ScanZone(items, i, label) ==
    IF i > Len(items) THEN ""
    ELSE IF items[i].has_carac /\ Contains(Strip(items[i].carac), label) /\ items[i].has_val
         THEN Strip(items[i].val)
         ELSE ScanZone(items, i + 1, label)

\* The body of the try block.
ZoneTry(resp, label) ==
    IF resp.raises THEN Exc("RequestException")
    ELSE IF resp.status_code # 200 THEN Ok("")
    ELSE IF resp.bad_markup THEN Exc("ParserError")
    ELSE Ok(ScanZone(resp.items, 1, label))

\* The resolver without its except branch, for comparison.
ZoneWithoutExcept(resp, label) == ZoneTry(resp, label)

\* try/except Exception: every exception becomes "".
get_zone_geographique(resp, label) ==
    LET r == ZoneTry(resp, label)
    IN  IF r.exc # None THEN Ok("") ELSE r

(***************************************************************************)
(* Field extraction from one product-item node                             *)
(***************************************************************************)
BASE_URL == "https://rappel.conso.gouv.fr"
CATEGORY_ID == 94
START_PAGE == 1
DETAIL_PAUSE_MS == 500
PAGE_PAUSE_MS == 1000

HrefOf(node) == IF node.a /\ node.has_href THEN node.href ELSE ""

FullLinkGetNews(link) == IF startswith(link, "/") THEN BASE_URL \o link ELSE link

FullLinkApp(link) ==
    IF startswith(link, "http") THEN link ELSE "https://rappel.conso.gouv.fr" \o link

TitleGetNews(node) == IF node.a THEN Strip(node.a_text) ELSE ""
TitleApp(node) == IF node.a THEN Strip(node.a_text) ELSE "No Title"

MakerOf(node) == IF node.has_maker THEN Strip(node.maker) ELSE ""

DescText(node, k, prefix) ==
    IF node.has_desc /\ Len(node.desc) >= k THEN Remove(Strip(node.desc[k]), prefix) ELSE ""

DateTextOf(node) == IF node.has_time THEN node.time ELSE ""

(***************************************************************************)
(* getNews.py: scrape_viandes and main                                     *)
(***************************************************************************)
\* The history `net`: a request with the kind of answer it got, or a sleep.
Get(kind, url, answer) ==
    [op |-> "GET", kind |-> kind, url |-> url, answer |-> answer, ms |-> 0]
Sleep(ms) == [op |-> "sleep", kind |-> "", url |-> "", answer |-> "", ms |-> ms]
Ask(answer) == [op |-> "oracle", kind |-> "", url |-> "", answer |-> answer, ms |-> 0]

ListingAnswer(resp) ==
    IF resp.raises THEN "raises"
    ELSE IF resp.status_code # 200 THEN "status"
    ELSE IF resp.nodes = <<>> THEN "empty" ELSE "page"

\* Whether an item of the page carries the sales-zone label of the site.
CarriesZoneLabel(items) ==
    \E i \in 1..Len(items) : items[i].has_carac /\ Contains(items[i].carac, SiteZoneLabel)

DetailAnswer(resp) ==
    IF resp.raises THEN "raises"
    ELSE IF resp.status_code # 200 THEN "status"
    ELSE IF resp.bad_markup THEN "parse"
    ELSE IF CarriesZoneLabel(resp.items) THEN "label" ELSE "no_label"

NoIndex == [num |-> 0, den |-> 0]

\* `ret`: the state of the ingestion call and the list it returned; `inside`
\* tells a call made by get_recall_ratings itself from one made by main.
NotReturned == [state |-> "running", inside |-> FALSE, value |-> <<>>]
ReturnedBatch(items) == [ret EXCEPT !.state = "returned", !.value = items]
RaisedOut == [ret EXCEPT !.state = "raised", !.value = <<>>]

ListingURL(p) == BASE_URL \o "/categorie/" \o ToString(CATEGORY_ID) \o "/" \o ToString(p)

GetNewsRecent == "14/02/2023 15:43:31"
GetNewsNodes == NodesWith(GetNewsRecent, "31/12/2020 23:59:59")

\* The filter on the dates the site serves, computed once for each.
GetNewsDates == { DateTextOf(n) : n \in GetNewsNodes }
FilterOnGetNewsDates == [ t \in GetNewsDates |-> FilterGetNews(t) ]

\* A stopping rule that goes on past an empty page, for comparison.
StopsOnStatusAlone(resp) == resp.status_code # 200

\* The two tests that end the scrape (the `break`s).
StopsScrape(resp) == resp.status_code # 200 \/ resp.nodes = <<>>

\* What every run starts from: nothing fetched, nothing scored, nothing shown.
Fresh ==
    /\ products = <<>> /\ li = 0 /\ all_items = <<>> /\ ret = NotReturned
    /\ net = <<>> /\ seen = <<>> /\ data = <<>> /\ reports = <<>>
    /\ avg_index = NoIndex /\ ui = <<>> /\ saved = [written |-> FALSE, rows |-> <<>>]

InitGetNews ==
    /\ prog = "getNews"
    /\ pc = "for_page"
    /\ TODAY = NoDatetime
    /\ page = START_PAGE
    /\ Fresh
    /\ arg = None /\ out = None

\* requests.get(url) raises: nothing in scrape_viandes or main catches it.
ListingFetchRaises ==
    /\ prog = "getNews" /\ pc = "for_page" /\ page <= MaxPage
    /\ \E resp \in ListingResponses(GetNewsNodes, NodesServed(seen)) :
        /\ resp.raises
        /\ net' = Append(net, Get("listing", ListingURL(page), ListingAnswer(resp)))
        /\ seen' = Append(seen, [page |-> page, raises |-> TRUE, status_code |-> 0,
                                 nodes |-> <<>>, before |-> all_items])
        /\ ret' = RaisedOut
        /\ pc' = "raised"
    /\ UNCHANGED <<envVars, page, products, li, all_items, scoreVars, ui, saved, harnessVars>>

\* A status other than 200, or no product-item node: break, then return all_items.
ListingFetchStops ==
    /\ prog = "getNews" /\ pc = "for_page" /\ page <= MaxPage
    /\ \E resp \in ListingResponses(GetNewsNodes, NodesServed(seen)) :
        /\ ~resp.raises
        /\ StopsScrape(resp)
        /\ net' = Append(net, Get("listing", ListingURL(page), ListingAnswer(resp)))
        /\ seen' = Append(seen, [page |-> page, raises |-> FALSE,
                                 status_code |-> resp.status_code,
                                 nodes |-> resp.nodes, before |-> all_items])
        /\ ret' = ReturnedBatch(all_items)
        /\ pc' = "returned"
    /\ UNCHANGED <<envVars, page, products, li, all_items, scoreVars, ui, saved, harnessVars>>

\* A page with product-item nodes: enter the loop over them.
ListingFetchProducts ==
    /\ prog = "getNews" /\ pc = "for_page" /\ page <= MaxPage
    /\ \E resp \in ListingResponses(GetNewsNodes, NodesServed(seen)) :
        /\ ~resp.raises
        /\ ~StopsScrape(resp)
        /\ net' = Append(net, Get("listing", ListingURL(page), ListingAnswer(resp)))
        /\ seen' = Append(seen, [page |-> page, raises |-> FALSE,
                                 status_code |-> resp.status_code,
                                 nodes |-> resp.nodes, before |-> all_items])
        /\ products' = resp.nodes
        /\ li' = 1
        /\ pc' = "for_li"
    /\ UNCHANGED <<envVars, page, all_items, ret, scoreVars, ui, saved, harnessVars>>

\* One product whose date is missing, unparseable or outside the window: continue.
ProductSkipped ==
    /\ prog = "getNews" /\ pc = "for_li" /\ li <= Len(products)
    /\ FilterOnGetNewsDates[DateTextOf(products[li])] = "skip"
    /\ li' = li + 1
    /\ UNCHANGED <<envVars, pc, page, products, all_items, ret, net, seen,
                   scoreVars, ui, saved, harnessVars>>

ItemGetNews(node, zone) ==
    [title |-> TitleGetNews(node), maker |-> MakerOf(node),
     risks |-> DescText(node, 1, "Risques{a0}:{a0}"),
     reason |-> DescText(node, 2, "Motif{a0}:{a0}"),
     date |-> DateTextOf(node), zone |-> zone, link |-> FullLinkGetNews(HrefOf(node))]

\* A loop that leaves out the record whose zone came back empty, for
\* comparison with ProductKept.
ProductKeptUnlessZoneEmpty ==
    /\ prog = "getNews" /\ pc = "for_li" /\ li <= Len(products)
    /\ FilterOnGetNewsDates[DateTextOf(products[li])] = "keep"
    /\ LET full_link == FullLinkGetNews(HrefOf(products[li]))
       IN  \E resp \in DetailResponses(full_link) :
             LET zone == get_zone_geographique(resp, ZoneLabelGetNews)
             IN  /\ net' = net \o << Get("detail", full_link, DetailAnswer(resp)),
                                    Sleep(DETAIL_PAUSE_MS) >>
                 /\ all_items' = IF zone.value = "" THEN all_items
                                 ELSE Append(all_items, ItemGetNews(products[li], zone.value))
                 /\ li' = li + 1
                 /\ UNCHANGED <<pc, ret>>
    /\ UNCHANGED <<envVars, page, products, seen, scoreVars, ui, saved, harnessVars>>

\* One product inside the window: the detail page, the pause, the append.
ProductKept ==
    /\ prog = "getNews" /\ pc = "for_li" /\ li <= Len(products)
    /\ FilterOnGetNewsDates[DateTextOf(products[li])] = "keep"
    /\ LET full_link == FullLinkGetNews(HrefOf(products[li]))
       IN  \E resp \in DetailResponses(full_link) :
             LET zone == get_zone_geographique(resp, ZoneLabelGetNews)
             IN  IF zone.exc # None
                 THEN /\ net' = Append(net, Get("detail", full_link, DetailAnswer(resp)))
                      /\ ret' = RaisedOut
                      /\ pc' = "raised"
                      /\ UNCHANGED <<li, all_items>>
                 ELSE /\ net' = net \o << Get("detail", full_link, DetailAnswer(resp)),
                                        Sleep(DETAIL_PAUSE_MS) >>
                      /\ all_items' = Append(all_items, ItemGetNews(products[li], zone.value))
                      /\ li' = li + 1
                      /\ UNCHANGED <<pc, ret>>
    /\ UNCHANGED <<envVars, page, products, seen, scoreVars, ui, saved, harnessVars>>

\* The end of a page without time.sleep(1), for comparison with PageDone.
PageDoneWithoutPause ==
    /\ prog = "getNews" /\ pc = "for_li" /\ li > Len(products)
    /\ page' = page + 1
    /\ pc' = "for_page"
    /\ UNCHANGED <<envVars, products, li, all_items, ret, net, seen, scoreVars, ui, saved,
                   harnessVars>>

\* The end of a page that fetches the same page again, for comparison with
\* PageDone.
PageDoneStaysOnPage ==
    /\ prog = "getNews" /\ pc = "for_li" /\ li > Len(products)
    /\ net' = Append(net, Sleep(PAGE_PAUSE_MS))
    /\ pc' = "for_page"
    /\ UNCHANGED <<envVars, page, products, li, all_items, ret, seen, scoreVars, ui, saved,
                   harnessVars>>

\* The end of the loop over the products: the pause, then the next page.
PageDone ==
    /\ prog = "getNews" /\ pc = "for_li" /\ li > Len(products)
    /\ net' = Append(net, Sleep(PAGE_PAUSE_MS))
    /\ page' = page + 1
    /\ pc' = "for_page"
    /\ UNCHANGED <<envVars, products, li, all_items, ret, seen, scoreVars, ui, saved,
                   harnessVars>>

\* The range is exhausted: return all_items.
RangeDone ==
    /\ prog = "getNews" /\ pc = "for_page" /\ page > MaxPage
    /\ ret' = ReturnedBatch(all_items)
    /\ pc' = "returned"
    /\ UNCHANGED <<envVars, page, products, li, all_items, net, seen, scoreVars, ui, saved,
                   harnessVars>>

\* main: `if results: save_to_csv(results, OUTPUT_CSV)`
MainGetNews ==
    /\ prog = "getNews" /\ pc = "returned"
    /\ saved' = IF ret.value # <<>> THEN [written |-> TRUE, rows |-> ret.value] ELSE saved
    /\ pc' = "exit"
    /\ UNCHANGED <<envVars, scrapeVars, scoreVars, ui, harnessVars>>

(***************************************************************************)
(* app.py, newsDemo.py: fetch_recalls                                      *)
(***************************************************************************)
RAPPEL_URL == "https://rappel.conso.gouv.fr/categorie/94/1"

Dashboards == {"app", "newsDemo"}

\* The load of the module in the runs of the dashboard.
DashboardToday == datetime(2025, 2, 14, 15, 43, 31, 500000)

DashboardRecent == "10/02/2025 08:00:00"
DashboardNodes == NodesWith(DashboardRecent, "04/02/2025 15:43:31")

\* app.main calls fetch_recalls itself; newsDemo.main calls get_recall_ratings,
\* whose first statement calls fetch_recalls.
InitDashboard ==
    /\ prog \in Dashboards
    /\ pc = "fetch_recalls"
    /\ TODAY = DashboardToday
    /\ page = 1
    /\ products = <<>> /\ li = 0 /\ all_items = <<>>
    /\ ret = [NotReturned EXCEPT !.inside = (prog = "newsDemo")]
    /\ net = <<>> /\ seen = <<>> /\ data = <<>> /\ reports = <<>>
    /\ avg_index = NoIndex /\ ui = <<>> /\ saved = [written |-> FALSE, rows |-> <<>>]
    /\ arg = None /\ out = None

\* requests.get(RAPPEL_URL) raises: nothing up to main catches it.
RecallsFetchRaises ==
    /\ prog \in Dashboards /\ pc = "fetch_recalls"
    /\ \E resp \in ListingResponses(DashboardNodes, NodesServed(seen)) :
        /\ resp.raises
        /\ net' = Append(net, Get("listing", RAPPEL_URL, ListingAnswer(resp)))
        /\ seen' = Append(seen, [page |-> page, raises |-> TRUE, status_code |-> 0,
                                 nodes |-> <<>>, before |-> all_items])
        /\ ret' = RaisedOut
        /\ pc' = "raised"
    /\ UNCHANGED <<envVars, page, products, li, all_items, scoreVars, ui, saved, harnessVars>>

\* A status other than 200: st.error, return the empty list.
RecallsFetchBadStatus ==
    /\ prog \in Dashboards /\ pc = "fetch_recalls"
    /\ \E resp \in ListingResponses(DashboardNodes, NodesServed(seen)) :
        /\ ~resp.raises
        /\ resp.status_code # 200
        /\ net' = Append(net, Get("listing", RAPPEL_URL, ListingAnswer(resp)))
        /\ seen' = Append(seen, [page |-> page, raises |-> FALSE,
                                 status_code |-> resp.status_code,
                                 nodes |-> resp.nodes, before |-> all_items])
        /\ ui' = Append(ui, "error: Unable to fetch recall data")
        /\ ret' = ReturnedBatch(all_items)
        /\ pc' = "returned"
    /\ UNCHANGED <<envVars, page, products, li, all_items, scoreVars, saved, harnessVars>>

\* No product-item node: st.warning, return the empty list.
RecallsFetchEmpty ==
    /\ prog \in Dashboards /\ pc = "fetch_recalls"
    /\ \E resp \in ListingResponses(DashboardNodes, NodesServed(seen)) :
        /\ ~resp.raises
        /\ resp.status_code = 200
        /\ resp.nodes = <<>>
        /\ net' = Append(net, Get("listing", RAPPEL_URL, ListingAnswer(resp)))
        /\ seen' = Append(seen, [page |-> page, raises |-> FALSE,
                                 status_code |-> resp.status_code,
                                 nodes |-> resp.nodes, before |-> all_items])
        /\ ui' = Append(ui, "warning: No recall records found")
        /\ ret' = ReturnedBatch(all_items)
        /\ pc' = "returned"
    /\ UNCHANGED <<envVars, page, products, li, all_items, scoreVars, saved, harnessVars>>

RecallsFetchItems ==
    /\ prog \in Dashboards /\ pc = "fetch_recalls"
    /\ \E resp \in ListingResponses(DashboardNodes, NodesServed(seen)) :
        /\ ~resp.raises
        /\ resp.status_code = 200
        /\ resp.nodes # <<>>
        /\ net' = Append(net, Get("listing", RAPPEL_URL, ListingAnswer(resp)))
        /\ seen' = Append(seen, [page |-> page, raises |-> FALSE,
                                 status_code |-> resp.status_code,
                                 nodes |-> resp.nodes, before |-> all_items])
        /\ products' = resp.nodes
        /\ li' = 1
        /\ pc' = "for_li"
    /\ UNCHANGED <<envVars, page, all_items, ret, scoreVars, ui, saved, harnessVars>>

\* app.py holds the prefixes as it holds the zone label: {c2} before each {a0}.
ItemApp(node, zone) ==
    [date |-> DateTextOf(node), title |-> TitleApp(node), maker |-> MakerOf(node),
     risks |-> DescText(node, 1, "Risques{c2}{a0}:{c2}{a0}"),
     motif |-> DescText(node, 2, "Motif{c2}{a0}:{c2}{a0}"),
     link |-> FullLinkApp(HrefOf(node)), zone |-> zone]

\* newsDemo.py: no zone.
ItemDemo(node) ==
    [date |-> DateTextOf(node), title |-> TitleApp(node), maker |-> MakerOf(node),
     risks |-> DescText(node, 1, "Risques{a0}:{a0}"),
     motif |-> DescText(node, 2, "Motif{a0}:{a0}"),
     link |-> FullLinkApp(HrefOf(node))]

RecallSkipped ==
    /\ prog \in Dashboards /\ pc = "for_li" /\ li <= Len(products)
    /\ FilterApp(DateTextOf(products[li]), TODAY) = "skip"
    /\ li' = li + 1
    /\ UNCHANGED <<envVars, pc, page, products, all_items, ret, net, seen,
                   scoreVars, ui, saved, harnessVars>>

\* app.py: the detail page, the pause, the append.
RecallKeptApp ==
    /\ prog = "app" /\ pc = "for_li" /\ li <= Len(products)
    /\ FilterApp(DateTextOf(products[li]), TODAY) = "keep"
    /\ LET full_link == FullLinkApp(HrefOf(products[li]))
       IN  \E resp \in DetailResponses(full_link) :
             LET zone == get_zone_geographique(resp, ZoneLabelApp)
             IN  IF zone.exc # None
                 THEN /\ net' = Append(net, Get("detail", full_link, DetailAnswer(resp)))
                      /\ ret' = RaisedOut
                      /\ pc' = "raised"
                      /\ UNCHANGED <<li, all_items>>
                 ELSE /\ net' = net \o << Get("detail", full_link, DetailAnswer(resp)),
                                        Sleep(DETAIL_PAUSE_MS) >>
                      /\ all_items' = Append(all_items, ItemApp(products[li], zone.value))
                      /\ li' = li + 1
                      /\ UNCHANGED <<pc, ret>>
    /\ UNCHANGED <<envVars, page, products, seen, scoreVars, ui, saved, harnessVars>>

\* newsDemo.py: the append alone.
RecallKeptDemo ==
    /\ prog = "newsDemo" /\ pc = "for_li" /\ li <= Len(products)
    /\ FilterApp(DateTextOf(products[li]), TODAY) = "keep"
    /\ all_items' = Append(all_items, ItemDemo(products[li]))
    /\ li' = li + 1
    /\ UNCHANGED <<envVars, pc, page, products, ret, net, seen, scoreVars, ui, saved,
                   harnessVars>>

RecallsReturn ==
    /\ prog \in Dashboards /\ pc = "for_li" /\ li > Len(products)
    /\ ret' = ReturnedBatch(all_items)
    /\ pc' = "returned"
    /\ UNCHANGED <<envVars, page, products, li, all_items, net, seen, scoreVars, ui, saved,
                   harnessVars>>

(***************************************************************************)
(* analyze_with_mistral                                                    *)
(***************************************************************************)
\* client.chat.complete: it raises, or answers with a message whose content
\* is a text or None.
OracleReply(raises, has_content, content) ==
    [raises |-> raises, has_content |-> has_content, content |-> content]

OracleReplies ==
    { OracleReply(TRUE, FALSE, ""),
      OracleReply(FALSE, FALSE, ""),
      OracleReply(FALSE, TRUE, "high"),
      OracleReply(FALSE, TRUE, " 80 "),
      OracleReply(FALSE, TRUE, "150"),
      OracleReply(FALSE, TRUE, "-5") }

OracleAnswer(reply) ==
    IF reply.raises THEN "raises" ELSE IF ~reply.has_content THEN "none" ELSE reply.content

IntOk(v) == [exc |-> None, value |-> v]
IntExc(e) == [exc |-> e, value |-> 0]

\* int(text): blanks around, an optional sign, then digits and nothing else.
int(text) ==
    LET t == Strip(text)
        signed == Len(t) > 0 /\ CharAt(t, 1) \in {"+", "-"}
        first == IF signed THEN 2 ELSE 1
        n == Len(t) - first + 1
    IN  IF n < 1 \/ DigitRun(t, first, n) # n THEN IntExc(ValueError)
        ELSE IF signed /\ CharAt(t, 1) = "-" THEN IntOk(0 - ToInt(t, first, n))
        ELSE IntOk(ToInt(t, first, n))

\* The body of the try block.
AnalyzeTry(reply) ==
    IF reply.raises THEN IntExc("SDKError")
    ELSE IF ~reply.has_content THEN IntExc("AttributeError")
    ELSE int(Strip(reply.content))

\* The scorer without its except branch, for comparison.
AnalyzeWithoutExcept(reply) == AnalyzeTry(reply)

\* try/except Exception: every exception becomes the score 100.
analyze_with_mistral(reply) ==
    LET r == AnalyzeTry(reply)
    IN  IF r.exc # None THEN IntOk(100) ELSE r

(***************************************************************************)
(* get_recall_ratings and the index of main                                *)
(***************************************************************************)
MaxBatch == 4       \* most records in a batch handed to get_recall_ratings

Callers == Dashboards \cup {"ratings"}

\* An argument that counts the empty list as no list (`if not recalls`), for
\* comparison with RecallsArg.
RecallsArgFalsy(r) == [isNone |-> r.value = <<>>, value |-> r.value]

\* The `recalls` argument: app.main passes the list fetch_recalls returned, and
\* `recalls is None` is false of every list, the empty one included.
RecallsArg(r) == [isNone |-> FALSE, value |-> r.value]

\* A schedule with the step truncated before the product, for comparison.
ProgressWithWholeStep(total, done) == 10 + ((90 \div total) * done)

\* current_progress = 10 + int(step * (i + 1)), with step = 90 / total a
\* double: for every total below 33 the product, truncated, is the exact
\* quotient of 90 * done by total.
current_progress(total, done) == 10 + ((90 * done) \div total)

Min(a, b) == IF a < b THEN a ELSE b

ScoredRow(recall, score) ==
    [date |-> recall.date, title |-> recall.title, link |-> recall.link, score |-> score]

\* get_recall_ratings up to the loop: `if recalls is None: recalls =
\* fetch_recalls()`, then progress_bar.progress(10).
RatingsStart ==
    /\ prog \in Callers /\ pc = "returned"
    /\ IF ~ret.inside /\ RecallsArg(ret).isNone
       THEN /\ pc' = "fetch_recalls"
            /\ ret' = [NotReturned EXCEPT !.inside = TRUE]
            /\ all_items' = <<>>
            /\ UNCHANGED <<li, reports>>
       ELSE /\ pc' = "score"
            /\ li' = 1
            /\ reports' = Append(reports, 10)
            /\ all_items' = IF ret.inside THEN ret.value ELSE RecallsArg(ret).value
            /\ UNCHANGED ret
    /\ UNCHANGED <<envVars, page, products, net, seen, data, avg_index, ui, saved,
                   harnessVars>>

\* One turn of the loop: the oracle, the row, the progress.
ScoreOne ==
    /\ prog \in Callers /\ pc = "score" /\ li <= Len(all_items)
    /\ \E reply \in OracleReplies :
         LET score == analyze_with_mistral(reply)
         IN  /\ net' = Append(net, Ask(OracleAnswer(reply)))
             /\ IF score.exc # None
                THEN /\ pc' = "raised"
                     /\ UNCHANGED <<li, data, reports>>
                ELSE /\ data' = Append(data, ScoredRow(all_items[li], score.value))
                     /\ reports' = Append(reports,
                                          Min(current_progress(Len(all_items), li), 100))
                     /\ li' = li + 1
                     /\ UNCHANGED pc
    /\ UNCHANGED <<envVars, page, products, all_items, ret, seen, avg_index, ui, saved,
                   harnessVars>>

\* The loop is over: return the DataFrame.
RatingsReturn ==
    /\ prog \in Callers /\ pc = "score" /\ li > Len(all_items)
    /\ pc' = "rated"
    /\ UNCHANGED <<envVars, scrapeVars, scoreVars, ui, saved, harnessVars>>

RECURSIVE SumScores(_)
SumScores(rows) == IF rows = <<>> THEN 0 ELSE rows[1].score + SumScores(Tail(rows))

\* A selection that leaves out the rows scored 100, for comparison.
RowsBelowFallback(rows) == SelectSeq(rows, LAMBDA r : r.score # 100)

\* df[df["score"] != "Error"]: every score is an integer, every row stays.
ValidRows(rows) == rows

\* main: 100 for an empty frame, the mean of the scores otherwise.
OverallIndex(rows) ==
    IF rows = <<>> THEN [num |-> 100, den |-> 1]
    ELSE IF ValidRows(rows) = <<>> THEN [num |-> 100, den |-> 1]
    ELSE [num |-> SumScores(ValidRows(rows)), den |-> Len(ValidRows(rows))]

MainIndex ==
    /\ prog \in Callers /\ pc = "rated"
    /\ avg_index' = OverallIndex(data)
    /\ ui' = IF data = <<>> THEN Append(ui, "info: No recall records found in the last week.")
             ELSE ui
    /\ pc' = "done"
    /\ UNCHANGED <<envVars, scrapeVars, data, reports, saved, harnessVars>>

\* get_recall_ratings called with a batch: records as fetch_recalls builds them.
SampleRecalls ==
    { ItemApp(ProductItem(TRUE, " Steak hache ", TRUE, "/rappels/fiche-rappel/1",
                          TRUE, "10/02/2025 08:00:00"), "France enti{e8}re"),
      ItemApp(ProductItem(FALSE, "", FALSE, "", TRUE, "14/02/2025 15:43:31"), "") }

InitRatings ==
    /\ prog = "ratings"
    /\ pc = "returned"
    /\ TODAY = DashboardToday
    /\ page = 1
    /\ products = <<>> /\ li = 0
    /\ all_items \in SeqsUpTo(SampleRecalls, MaxBatch)
    /\ ret = [state |-> "returned", inside |-> FALSE, value |-> all_items]
    /\ net = <<>> /\ seen = <<>> /\ data = <<>> /\ reports = <<>>
    /\ avg_index = NoIndex /\ ui = <<>> /\ saved = [written |-> FALSE, rows |-> <<>>]
    /\ arg = None /\ out = None

NextRatings == RatingsStart \/ ScoreOne \/ RatingsReturn \/ MainIndex

SpecRatings == InitRatings /\ [][NextRatings]_vars

(***************************************************************************)
(* The runs of the three programs                                          *)
(***************************************************************************)
Init == InitGetNews \/ InitDashboard

Next ==
    \/ ListingFetchRaises
    \/ ListingFetchStops
    \/ ListingFetchProducts
    \/ ProductSkipped
    \/ ProductKept
    \/ PageDone
    \/ RangeDone
    \/ MainGetNews
    \/ RecallsFetchRaises
    \/ RecallsFetchBadStatus
    \/ RecallsFetchEmpty
    \/ RecallsFetchItems
    \/ RecallSkipped
    \/ RecallKeptApp
    \/ RecallKeptDemo
    \/ RecallsReturn
    \/ RatingsStart
    \/ ScoreOne
    \/ RatingsReturn
    \/ MainIndex

Spec == Init /\ [][Next]_vars

\* getNews.py alone. The program is sequential and every call it makes blocks
\* until it returns or raises: a step that can be taken is taken.
NextGetNews ==
    \/ ListingFetchRaises
    \/ ListingFetchStops
    \/ ListingFetchProducts
    \/ ProductSkipped
    \/ ProductKept
    \/ PageDone
    \/ RangeDone
    \/ MainGetNews

SpecScrape == InitGetNews /\ [][NextGetNews]_vars /\ WF_vars(NextGetNews)

(***************************************************************************)
(* The date filter applied to one raw date string                          *)
(***************************************************************************)
\* The loads of app.py / newsDemo.py considered: datetime.today() carries
\* microseconds; one window crosses a leap day, one the turn of the year.
Todays ==
    { datetime(2025, 2, 14, 15, 43, 31, 500000),
      datetime(2024, 3, 7, 0, 0, 0, 0),
      datetime(2025, 1, 7, 23, 59, 59, 0) }

Pad2(n) == IF n < 10 THEN "0" \o ToString(n) ELSE ToString(n)

\* The site's rendering of a date: "14/02/2025 15:43:31".
FormatDate(f) ==
    Pad2(f.d) \o "/" \o Pad2(f.m) \o "/" \o ToString(f.Y) \o " " \o
    Pad2(f.H) \o ":" \o Pad2(f.M) \o ":" \o Pad2(f.S)

\* Whether the fields name a moment of the calendar.
IsCalendar(f) ==
    /\ f.m \in 1..12
    /\ f.d \in 1..DaysInMonth(f.Y, f.m)
    /\ f.H \in 0..23 /\ f.M \in 0..59 /\ f.S \in 0..59

DayValues == {0, 1, 7, 14, 29, 31, 32}
MonthValues == {1, 2, 3, 12, 13}
YearValues == {2020, 2021, 2023, 2024, 2025}
ClockValues ==
    { <<0, 0, 0>>, <<15, 43, 31>>, <<15, 43, 32>>, <<23, 59, 59>>,
      <<24, 0, 0>>, <<23, 60, 0>>, <<23, 59, 60>> }

\* A raw date string with what it denotes (denotes = FALSE: nothing).
Rendered ==
    { [text |-> FormatDate(datetime(Y, m, d, c[1], c[2], c[3], 0)),
       denotes |-> IsCalendar(datetime(Y, m, d, c[1], c[2], c[3], 0)),
       fields |-> datetime(Y, m, d, c[1], c[2], c[3], 0)] :
         d \in DayValues, m \in MonthValues, Y \in YearValues, c \in ClockValues }

Irregular ==
    { [text |-> "", denotes |-> FALSE, fields |-> NoDatetime],
      [text |-> "2023-01-01 00:00:00", denotes |-> FALSE, fields |-> NoDatetime],
      [text |-> "14/02/2023", denotes |-> FALSE, fields |-> NoDatetime],
      [text |-> "14/02/23 15:43:31", denotes |-> FALSE, fields |-> NoDatetime],
      [text |-> "14/02/2023 15:43:31 ", denotes |-> FALSE, fields |-> NoDatetime],
      [text |-> "14/02/2023T15:43:31", denotes |-> FALSE, fields |-> NoDatetime],
      [text |-> "hier", denotes |-> FALSE, fields |-> NoDatetime],
      [text |-> "1/2/2023 5:4:3", denotes |-> TRUE,
       fields |-> datetime(2023, 2, 1, 5, 4, 3, 0)],
      [text |-> "14/02/2023  15:43:31", denotes |-> TRUE,
       fields |-> datetime(2023, 2, 14, 15, 43, 31, 0)],
      [text |-> " 7/02/2025 15:43:32", denotes |-> TRUE,
       fields |-> datetime(2025, 2, 7, 15, 43, 32, 0)] }

DateInputs == Rendered \cup Irregular

FilterProgs == {"filter_getNews", "filter_app"}

InitDateFilter ==
    /\ prog \in FilterProgs
    /\ pc = "call"
    /\ TODAY \in (IF prog = "filter_getNews" THEN {NoDatetime} ELSE Todays)
    /\ arg \in DateInputs
    /\ out = None
    /\ page = 0
    /\ Fresh

ApplyDateFilter ==
    /\ prog \in FilterProgs
    /\ pc = "call"
    /\ out' = IF prog = "filter_getNews" THEN FilterGetNews(arg.text)
              ELSE FilterApp(arg.text, TODAY)
    /\ pc' = "done"
    /\ UNCHANGED <<envVars, scrapeVars, scoreVars, ui, saved, arg>>

NextDateFilter == ApplyDateFilter

SpecDateFilter == InitDateFilter /\ [][NextDateFilter]_vars

(***************************************************************************)
(* The link of one product-item node                                       *)
(***************************************************************************)
HrefHeads ==
    { "", "/", "//", "http://", "https://", "https://rappel.conso.gouv.fr/",
      "http", "fiche", "./", "../" }
HrefTails == { "", "rappels/fiche-rappel/3", "x" }

\* The anchors considered: no anchor, an anchor without href, an anchor with
\* each of the hrefs.
Anchors ==
    { [a |-> FALSE, has_href |-> FALSE, href |-> ""],
      [a |-> TRUE, has_href |-> FALSE, href |-> ""] }
    \cup { [a |-> TRUE, has_href |-> TRUE, href |-> h \o t] : h \in HrefHeads, t \in HrefTails }

LinkProgs == {"link_getNews", "link_app"}

InitLink ==
    /\ prog \in LinkProgs
    /\ pc = "call"
    /\ TODAY = NoDatetime
    /\ arg \in Anchors
    /\ out = None
    /\ page = 0
    /\ Fresh

ApplyLink ==
    /\ prog \in LinkProgs
    /\ pc = "call"
    /\ out' = IF prog = "link_getNews" THEN FullLinkGetNews(HrefOf(arg))
              ELSE FullLinkApp(HrefOf(arg))
    /\ pc' = "done"
    /\ UNCHANGED <<envVars, scrapeVars, scoreVars, ui, saved, arg>>

NextLink == ApplyLink

SpecLink == InitLink /\ [][NextLink]_vars

(***************************************************************************)
(* Timestamps: seconds since 2000-01-01 00:00:00, and microseconds.        *)
(***************************************************************************)
DaysBeforeYear(y) ==
    (y - 1) * 365 + ((y - 1) \div 4) - ((y - 1) \div 100) + ((y - 1) \div 400)

RECURSIVE DaysBeforeMonth(_, _)
DaysBeforeMonth(y, m) ==
    IF m = 1 THEN 0 ELSE DaysBeforeMonth(y, m - 1) + DaysInMonth(y, m - 1)

Ordinal(a) == DaysBeforeYear(a.Y) + DaysBeforeMonth(a.Y, a.m) + a.d

Timestamp(a) ==
    [sec |-> (Ordinal(a) - Ordinal(datetime(2000, 1, 1, 0, 0, 0, 0))) * 86400
             + a.H * 3600 + a.M * 60 + a.S,
     us |-> a.us]

TsLe(a, b) == a.sec < b.sec \/ (a.sec = b.sec /\ a.us <= b.us)

WindowStart ==
    IF prog = "filter_getNews" THEN Timestamp(start_date_filter)
    ELSE [sec |-> Timestamp(TODAY).sec - 7 * 86400, us |-> TODAY.us]

WindowEnd ==
    IF prog = "filter_getNews" THEN Timestamp(end_date_filter) ELSE Timestamp(TODAY)

\* C2: a raw date string is kept if and only if it denotes a moment of the
\* calendar in the format day/month/year hour:minute:second and that moment
\* lies in the window, both bounds included; a string that does not parse is
\* dropped and raises nothing.
C2_KeptIffParsedInWindow ==
    (pc = "done" /\ prog \in FilterProgs) =>
        /\ out \in {"keep", "skip"}
        /\ (out = "keep") <=>
              /\ arg.denotes
              /\ TsLe(WindowStart, Timestamp(arg.fields))
              /\ TsLe(Timestamp(arg.fields), WindowEnd)

\* A date on the lower bound of the window itself has been kept.
C2_Witness ==
    /\ pc = "done" /\ prog \in FilterProgs
    /\ out = "keep"
    /\ arg.denotes
    /\ Timestamp(arg.fields) = WindowStart

(***************************************************************************)
(* Reading the histories                                                   *)
(***************************************************************************)
\* The positions in `net` of the requests of one kind, and the k-th of them.
GetsAt(kind) == { i \in 1..Len(net) : net[i].op = "GET" /\ net[i].kind = kind }

NthGet(kind, k) ==
    CHOOSE i \in GetsAt(kind) : Cardinality({ j \in GetsAt(kind) : j <= i }) = k

\* A listing page that ends the scrape: answered, and not 200 or without nodes.
EndsScrape(s) == ~s.raises /\ (s.status_code # 200 \/ s.nodes = <<>>)

(***************************************************************************)
(* Claims                                                                  *)
(***************************************************************************)
\* C1: in scrape_viandes, once a fetched listing page has a status other than
\* 200 or holds no product-item node, the run has stopped without raising: no
\* request, listing or detail, follows that fetch, and the batch returned is
\* the records accumulated before that page.
C1_StopsAtFirstEmptyOrFailedPage ==
    prog = "getNews" =>
        \A k \in 1..Len(seen) :
            EndsScrape(seen[k]) =>
                /\ k = Len(seen)
                /\ \A j \in (NthGet("listing", k) + 1)..Len(net) : net[j].op # "GET"
                /\ pc \in {"returned", "exit"}
                /\ ret.state = "returned"
                /\ ret.value = seen[k].before

\* The second page came back empty after a first page that gave records.
C1_Witness ==
    /\ prog = "getNews" /\ pc = "exit"
    /\ Len(seen) = 2
    /\ seen[2].status_code = 200 /\ seen[2].nodes = <<>>
    /\ seen[2].before # <<>>
    /\ ret.value = seen[2].before

\* The k-th call of the oracle in `net`.
AsksAt == { i \in 1..Len(net) : net[i].op = "oracle" }

NthAnswer(k) ==
    net[CHOOSE i \in AsksAt : Cardinality({ j \in AsksAt : j <= i }) = k].answer

\* The answers of the oracle that are failures: the call raised, the message
\* held no text, the text is no integer.
FailedAnswers == {"raises", "none", "high"}

\* The integer an answer spells, for the answers that spell one.
Spelled(answer) ==
    CASE answer = " 80 " -> 80 [] answer = "150" -> 150 [] answer = "-5" -> 0 - 5

\* C3: every score of a scored row lies in 0..100, whatever the oracle
\* answered, and a failure of the oracle gives exactly 100.
C3_ScoreWithinRange ==
    \A i \in 1..Len(data) :
        /\ data[i].score >= 0 /\ data[i].score <= 100
        /\ NthAnswer(i) \in FailedAnswers => data[i].score = 100

\* C4: get_recall_ratings gives one row per record of the batch, in the order
\* of the batch, with the date, title and link of the record at that place; a
\* failure of the oracle on one record gives that row the score 100, ends
\* nothing, and leaves every other row the score its own answer spells.
C4_OneRowPerRecordInOrder ==
    prog = "ratings" =>
        /\ pc # "raised"
        /\ Len(data) <= Len(ret.value)
        /\ Cardinality(AsksAt) = Len(data)
        /\ pc \in {"rated", "done"} => Len(data) = Len(ret.value)
        /\ \A i \in 1..Len(data) :
              /\ data[i].date = ret.value[i].date
              /\ data[i].title = ret.value[i].title
              /\ data[i].link = ret.value[i].link
              /\ data[i].score = IF NthAnswer(i) \in FailedAnswers THEN 100
                                 ELSE Spelled(NthAnswer(i))

\* A batch of three different records, the oracle failing on the second alone.
C4_Witness ==
    /\ prog = "ratings" /\ pc = "done"
    /\ Len(ret.value) = 3 /\ ret.value[1] # ret.value[2]
    /\ NthAnswer(1) = " 80 " /\ NthAnswer(2) = "raises" /\ NthAnswer(3) = "-5"
    /\ data[1].score = 80 /\ data[2].score = 100 /\ data[3].score = 0 - 5

\* The whole part of 90 * k / total.
FloorOfShare(total, k) ==
    CHOOSE n \in 0..90 : n * total <= 90 * k /\ (n + 1) * total > 90 * k

RECURSIVE Total(_, _)
Total(rows, n) == IF n = 0 THEN 0 ELSE Total(rows, n - 1) + rows[n].score

\* C6: the index is the arithmetic mean of all the scores of the frame, and
\* 100 when the frame is empty.
C6_IndexIsMeanOrHundred ==
    pc = "done" =>
        /\ avg_index.den > 0
        /\ IF data = <<>> THEN avg_index.num = 100 * avg_index.den
           ELSE avg_index.num * Len(data) = Total(data, Len(data)) * avg_index.den

\* The scores 80 and 100 give 90.
C6_Witness ==
    /\ pc = "done"
    /\ Len(data) = 2 /\ data[1].score = 80 /\ data[2].score = 100
    /\ avg_index.num = 90 * avg_index.den

\* The nodes of the listing pages the loops have been through, in order.
RECURSIVE Flatten(_)
Flatten(h) == IF h = <<>> THEN <<>> ELSE h[1].nodes \o Flatten(Tail(h))

ProcessedNodes ==
    IF pc = "for_li"
    THEN Flatten(SubSeq(seen, 1, Len(seen) - 1)) \o SubSeq(products, 1, li - 1)
    ELSE Flatten(seen)

\* The nodes of the site whose date lies in the window of the run.
IsRecent(node) == node.has_time /\ node.time \in {GetNewsRecent, DashboardRecent}

WithZone == {"getNews", "app"}

\* The answers of a detail page on which the zone cannot be read.
ZoneFailures == {"raises", "status", "parse", "no_label"}

\* C7: get_zone_geographique raises nothing: when the detail fetch answers a
\* status other than 200, when the fetch or the parse raises, and when no item
\* carries the sales-zone label, the record gets the empty zone and the run
\* goes on; the only way a run ends raising is a listing fetch that raises.
C7_ZoneFailureGivesEmptyZone ==
    prog \in WithZone =>
        /\ pc = "raised" => seen[Len(seen)].raises
        /\ \A k \in 1..Cardinality(GetsAt("detail")) :
              net[NthGet("detail", k)].answer \in ZoneFailures =>
                  /\ Len(all_items) >= k
                  /\ all_items[k].zone = ""

\* The detail fetch of the first record raised, the second record got its zone.
C7_Witness ==
    /\ prog = "getNews"
    /\ Len(all_items) = 2
    /\ net[NthGet("detail", 1)].answer = "raises" /\ all_items[1].zone = ""
    /\ net[NthGet("detail", 2)].answer = "label" /\ all_items[2].zone # ""

\* C8: with zone enrichment, the detail page of a record is requested once if
\* the record passes the date filter and never if it is dropped: the detail
\* requests are, one for one and in order, the links of the records kept, and
\* a run that returns has made as many of them as the batch has records.
C8_OneDetailRequestPerKeptRecord ==
    prog \in WithZone =>
        /\ Cardinality(GetsAt("detail")) = Len(SelectSeq(ProcessedNodes, IsRecent))
        /\ Cardinality(GetsAt("detail")) = Len(all_items)
        /\ \A k \in 1..Len(all_items) : net[NthGet("detail", k)].url = all_items[k].link
        /\ ret.state = "returned" => Cardinality(GetsAt("detail")) = Len(ret.value)

\* A run over a kept and a dropped record has made one detail request.
C8_Witness ==
    /\ prog = "getNews" /\ pc = "exit"
    /\ Len(ProcessedNodes) = 2
    /\ ~IsRecent(ProcessedNodes[1]) /\ IsRecent(ProcessedNodes[2])
    /\ Cardinality(GetsAt("detail")) = 1
    /\ Len(ret.value) = 1

\* The listing pages that held nodes, among those fetched.
PagesWithNodes == { k \in 1..Len(seen) : ~seen[k].raises /\ ~EndsScrape(seen[k]) }

PagePausesAt == { i \in 1..Len(net) : net[i] = Sleep(PAGE_PAUSE_MS) }

\* C9: every detail request is followed at once by the detail pause, before
\* any other request; in scrape_viandes every listing fetch after the first
\* comes right after the page pause, and a run that returns has paused once
\* for each page whose records it went through.
C9_PausesAfterDetailAndPage ==
    prog \in WithZone =>
        /\ \A i \in GetsAt("detail") :
              i + 1 <= Len(net) /\ net[i + 1] = Sleep(DETAIL_PAUSE_MS)
        /\ prog = "getNews" =>
              /\ \A j \in GetsAt("listing") : j > 1 => net[j - 1] = Sleep(PAGE_PAUSE_MS)
              /\ ret.state = "returned" =>
                    Cardinality(PagePausesAt) = Cardinality(PagesWithNodes)

\* A detail request, its pause, the page pause, then the fetch of page 2.
C9_Witness ==
    /\ prog = "getNews"
    /\ Len(net) = 5
    /\ net[2].op = "GET" /\ net[2].kind = "detail"
    /\ net[3] = Sleep(DETAIL_PAUSE_MS)
    /\ net[4] = Sleep(PAGE_PAUSE_MS)
    /\ net[5].op = "GET" /\ net[5].kind = "listing"

\* C10: the link of a record is an absolute URL or the empty string, never a
\* bare relative path, whatever the href of the anchor of the entry: absent,
\* empty, starting with "/", starting with "http", or any other relative path.
C10_LinkAbsoluteOrEmpty ==
    (pc = "done" /\ prog \in LinkProgs) => (out = "" \/ IsAbsoluteURL(out))

\* C11: when the fetch of a listing page after the first raises, scrape_viandes
\* ends the pagination and its caller receives the records accumulated from
\* the pages before: they are not lost.
C11_BatchSurvivesNetworkFailure ==
    prog = "getNews" =>
        \A k \in 2..Len(seen) :
            seen[k].raises => /\ ret.state = "returned"
                              /\ ret.value = seen[k].before

\* The first listing fetch of the run failed: it raised, or its status is not 200.
InitialFetchFailed ==
    Len(seen) >= 1 /\ (seen[1].raises \/ seen[1].status_code # 200)

\* The caller of the ingestion is told of a failure: the call raised, or the
\* dashboard showed its error message.
FailureReported ==
    \/ ret.state = "raised"
    \/ pc = "raised"
    \/ \E i \in 1..Len(ui) : ui[i] = "error: Unable to fetch recall data"

\* C12: when the first listing fetch fails, the ingestion reports a failure to
\* its caller, which a run that found no record in the window does not; a
\* failure of a later listing page, of a detail page, of the parse of a date or
\* of the scoring is never reported to the caller as a failure.
C12_OnlyInitialFetchFailureReported ==
    /\ (InitialFetchFailed /\ ret.state # "running") => FailureReported
    /\ (Len(seen) >= 1 /\ ~InitialFetchFailed) => ~FailureReported

\* The entries gone through so far whose date lies in the window, in the order
\* of the pages and, on a page, of the document.
KeptNodes == SelectSeq(ProcessedNodes, IsRecent)

\* The record extracted from a node by the program that runs, the zone left
\* as it is in `item`.
RecordOf(node, item) ==
    CASE prog = "getNews" -> ItemGetNews(node, item.zone)
      [] prog = "app" -> ItemApp(node, item.zone)
      [] prog = "newsDemo" -> ItemDemo(node)

\* C13: the batch of an ingestion run is the subsequence of the entries of the
\* pages gone through, in page order then document order, whose date passes
\* the filter: none left out, none added, none twice, none moved, whatever
\* the zone resolver gave; the batch returned is that sequence.
C13_BatchIsInWindowSubsequence ==
    /\ Len(all_items) = Len(KeptNodes)
    /\ \A k \in 1..Len(all_items) : all_items[k] = RecordOf(KeptNodes[k], all_items[k])
    /\ ret.state = "returned" => ret.value = all_items

\* Two pages, three entries, the second one too old: the batch returned holds
\* the first and the third, in that order, the first without a zone.
C13_Witness ==
    /\ prog = "getNews" /\ pc = "exit"
    /\ Len(seen) = 2 /\ Len(seen[1].nodes) = 2 /\ Len(seen[2].nodes) = 1
    /\ IsRecent(seen[1].nodes[1]) /\ ~IsRecent(seen[1].nodes[2]) /\ IsRecent(seen[2].nodes[1])
    /\ seen[1].nodes[1] # seen[2].nodes[1]
    /\ Len(ret.value) = 2
    /\ ret.value[1].zone = "" /\ ret.value[2].zone # ""
    /\ ret.value[1].title # ret.value[2].title

\* C14: an entry with no anchor node still gives a record, whose title is the
\* placeholder, a non-empty string, and whose link is the empty string, in
\* both implementations of the ingestion.
C14_MissingAnchorDefaults ==
    /\ Len(all_items) = Len(KeptNodes)
    /\ \A k \in 1..Len(all_items) :
          (k <= Len(KeptNodes) /\ ~KeptNodes[k].a) =>
              /\ all_items[k].title # ""
              /\ all_items[k].link = ""

\* The positions in `net` of the requests, of either kind.
FetchesAt == GetsAt("listing") \cup GetsAt("detail")

\* C15: in a run of app.main every fetch, of the listing page or of a detail
\* page, comes before the first call of the oracle and none comes once the
\* scoring has started; get_recall_ratings, given a batch, the empty one
\* included, starts no ingestion of its own: the run holds one ingestion, so
\* one listing fetch.
C15_IngestionBeforeScoringOnce ==
    prog = "app" =>
        /\ \A i \in FetchesAt : \A j \in AsksAt : i < j
        /\ pc \in {"score", "rated", "done"} =>
              /\ Cardinality(GetsAt("listing")) = 1
              /\ ~ret.inside
              /\ all_items = ret.value
        /\ Cardinality(GetsAt("listing")) <= 1

\* A run of app.main to its end: the listing page, two detail pages, then two
\* calls of the oracle.
C15_Witness ==
    /\ prog = "app" /\ pc = "done"
    /\ Cardinality(GetsAt("listing")) = 1
    /\ Cardinality(GetsAt("detail")) = 2
    /\ Cardinality(AsksAt) = 2
    /\ Len(data) = 2

\* The listing pages fetched by scrape_viandes are START_PAGE, START_PAGE + 1,
\* ...: in order, one apart, none twice, none past the last page of the range.
PagesInOrder ==
    /\ Len(seen) <= MaxPage
    /\ Cardinality(GetsAt("listing")) = Len(seen)
    /\ \A k \in 1..Len(seen) :
          /\ seen[k].page = START_PAGE + k - 1
          /\ seen[k].page <= MaxPage
          /\ net[NthGet("listing", k)].url = ListingURL(seen[k].page)

\* scrape_viandes and main are over: main returned, or an exception left it.
ScrapeOver == pc \in {"exit", "raised"}

\* C16: scrape_viandes fetches the listing pages in increasing order from the
\* first page, one by one, each page number once at most and none above the
\* last page of the range, and every run ends, after that many listing
\* fetches at most, even when no page is empty or failing.
C16_PagesInOrderAndTerminates == [](PagesInOrder) /\ <>(ScrapeOver)

\* A run that ended by the exhaustion of the range: every page of the range
\* fetched, each with records, none failing.
C16_Witness ==
    /\ prog = "getNews" /\ pc = "exit"
    /\ Len(seen) = MaxPage
    /\ \A k \in 1..Len(seen) : ~seen[k].raises /\ ~EndsScrape(seen[k])
    /\ seen[MaxPage].page = MaxPage

====
